---- MODULE Spec2Model ----
(***************************************************************************)
(* Model of docx-meta-update (src/src/main.rs): the DOCX metadata editor.  *)
(*                                                                         *)
(* Strings are sequences of tokens.  A date string is the sequence of its  *)
(* lexical parts: a date-time body, a zone designator, or garbage.  An XML *)
(* part is the sequence of the events quick_xml reads from its bytes; a    *)
(* ZIP container is the sequence of its entries.                           *)
(***************************************************************************)
EXTENDS Integers, Sequences, FiniteSets, TLC

(***************************************************************************)
(* Bounds of the model.                                                    *)
(***************************************************************************)
\* number of entries of a source container besides the two property parts
MaxExtra == 2
\* number of commands the UI may have outstanding at once
MaxInFlight == 2
\* number of button presses (select, save) in one run of the application
MaxPresses == 3

(***************************************************************************)
(* Strings and dates.                                                      *)
(***************************************************************************)
EmptyStr == << >>

DateBodies == {"2023-01-01T12:00:00", "2024-02-02T08:30:00"}

D1Z   == <<"2023-01-01T12:00:00", "Z">>
D2Off == <<"2024-02-02T08:30:00", "+00:00">>
Junk  == <<"x">>

\* the strings a caller may pass as a date
DateInputs == {EmptyStr, D1Z, D2Off, Junk}

\* str::replace(from, to) on tokens
Replace(s, from, to) == [i \in 1..Len(s) |-> IF s[i] = from THEN to ELSE s[i]]

\* chrono DateTime::parse_from_rfc3339: TRUE iff the string parses
ParseRfc3339(s) ==
    /\ Len(s) = 2
    /\ s[1] \in DateBodies
    /\ s[2] \in {"Z", "+00:00"}

\* the check save_metadata applies to each date (main.rs:265)
DateOk(s) == ParseRfc3339(Replace(s, "Z", "+00:00"))

\* BytesText::new escapes the markup characters of its argument
Escape(s) ==
    [i \in 1..Len(s) |->
        CASE s[i] = "&" -> "&amp;"
          [] s[i] = "<" -> "&lt;"
          [] s[i] = ">" -> "&gt;"
          [] OTHER      -> s[i]]

(***************************************************************************)
(* XML parts: sequences of events.                                         *)
(***************************************************************************)
Ev(t, n, x) == [type |-> t, name |-> n, text |-> x]
StartEv(n)  == Ev("Start", n, EmptyStr)
EndEv(n)    == Ev("End", n, EmptyStr)
EmptyEv(n)  == Ev("Empty", n, EmptyStr)
TextEv(x)   == Ev("Text", "", x)
DeclEv      == Ev("Decl", "xml", EmptyStr)
Ws          == TextEv(<<"\n  ">>)

\* the bytes a Writer holds after the given events were written to it:
\* an empty text writes nothing and adjacent texts are one run of characters
RECURSIVE Bytes(_)
Bytes(evs) ==
    IF evs = << >> THEN << >>
    ELSE LET e == Head(evs)
             rest == Bytes(Tail(evs))
         IN  IF e.type = "Text" /\ e.text = EmptyStr THEN rest
             ELSE IF e.type = "Text" /\ rest # << >> /\ rest[1].type = "Text"
                  THEN <<TextEv(e.text \o rest[1].text)>> \o Tail(rest)
                  ELSE <<e>> \o rest

(***************************************************************************)
(* quick_xml Reader over a part: position and the stack of open elements   *)
(* (check_end_names is on by default).                                     *)
(***************************************************************************)
NewReader == [pos |-> 1, open |-> << >>]

\* Reader::read_event_into: the event read ("Eof" past the end, "Err" for a
\* syntax error or a mismatched end tag) and the reader after it
ReadEvent(doc, r) ==
    IF r.pos > Len(doc) THEN [ev |-> Ev("Eof", "", EmptyStr), rd |-> r]
    ELSE LET e == doc[r.pos]
             nxt == r.pos + 1
         IN  CASE e.type = "Start" ->
                    [ev |-> e, rd |-> [pos |-> nxt, open |-> Append(r.open, e.name)]]
               [] e.type = "End" ->
                    IF r.open = << >>
                    THEN [ev |-> Ev("Err", e.name, EmptyStr), rd |-> [r EXCEPT !.pos = nxt]]
                    ELSE LET top == r.open[Len(r.open)]
                             popped == SubSeq(r.open, 1, Len(r.open) - 1)
                         IN  IF top = e.name
                             THEN [ev |-> e, rd |-> [pos |-> nxt, open |-> popped]]
                             ELSE [ev |-> Ev("Err", e.name, EmptyStr),
                                   rd |-> [pos |-> nxt, open |-> popped]]
               [] e.type = "Bad" ->
                    [ev |-> Ev("Err", "", EmptyStr), rd |-> [r EXCEPT !.pos = nxt]]
               [] OTHER -> [ev |-> e, rd |-> [r EXCEPT !.pos = nxt]]

\* Reader::read_to_end_into(name): consume events up to and including the end
\* tag that closes the element just opened; ok = FALSE when an error or the end
\* of the input comes first.  span is the text between the tags.
RECURSIVE ReadToEnd(_, _, _, _, _)
ReadToEnd(doc, r, name, depth, span) ==
    LET n == ReadEvent(doc, r)
    IN  CASE n.ev.type \in {"Err", "Eof"} -> [ok |-> FALSE, rd |-> n.rd, span |-> EmptyStr]
          [] n.ev.type = "Start" /\ n.ev.name = name ->
                ReadToEnd(doc, n.rd, name, depth + 1, span \o <<name>>)
          [] n.ev.type = "End" /\ n.ev.name = name ->
                IF depth = 0 THEN [ok |-> TRUE, rd |-> n.rd, span |-> span]
                ELSE ReadToEnd(doc, n.rd, name, depth - 1, span \o <<name>>)
          [] n.ev.type = "Text" -> ReadToEnd(doc, n.rd, name, depth, span \o n.ev.text)
          [] OTHER -> ReadToEnd(doc, n.rd, name, depth, span \o <<n.ev.name>>)

\* reader.read_text(name).unwrap_or_default().to_string()
ReadTextOrDefault(doc, r, name) ==
    LET t == ReadToEnd(doc, r, name, 0, EmptyStr)
    IN  [text |-> IF t.ok THEN t.span ELSE EmptyStr, rd |-> t.rd]

(***************************************************************************)
(* Files and ZIP containers.                                               *)
(***************************************************************************)
CoreName == "docProps/core.xml"
AppName  == "docProps/app.xml"

Entry(n, d, m) == [name |-> n, data |-> d, method |-> m]

\* what a path holds: nothing, a finished archive, an archive still being
\* written (no central directory yet), or bytes that are no archive
NoFile       == [kind |-> "none", entries |-> << >>]
ZipFile(es)  == [kind |-> "zip", entries |-> es]
Partial(es)  == [kind |-> "partial", entries |-> es]
JunkFile     == [kind |-> "junk", entries |-> << >>]

Names(es) == {es[i].name : i \in 1..Len(es)}

\* ZipArchive::by_name: the data of the entry of that name
ByName(es, n) == (CHOOSE i \in 1..Len(es) : es[i].name = n)

\* Path::with_extension: the path with its extension replaced
with_extension(p, e) == [p EXCEPT !.ext = e]

(***************************************************************************)
(* load_metadata (main.rs:215-256).  Results are records; st is "Ok" or    *)
(* "Err".                                                                  *)
(***************************************************************************)
LoadOk(c, m, l) == [st |-> "Ok", created |-> c, modified |-> m, last_printed |-> l]
LoadErr == [st |-> "Err", created |-> EmptyStr, modified |-> EmptyStr,
            last_printed |-> EmptyStr]

\* the event loop of load_metadata (main.rs:232-251)
RECURSIVE LoadLoop(_, _, _, _, _)
LoadLoop(doc, r, c, m, l) ==
    LET n == ReadEvent(doc, r)
        t == ReadTextOrDefault(doc, n.rd, n.ev.name)
    IN  CASE n.ev.type = "Start" /\ n.ev.name = "dcterms:created" ->
                LoadLoop(doc, t.rd, t.text, m, l)
          [] n.ev.type = "Start" /\ n.ev.name = "dcterms:modified" ->
                LoadLoop(doc, t.rd, c, t.text, l)
          [] n.ev.type = "Start" /\ n.ev.name = "cp:lastPrinted" ->
                LoadLoop(doc, t.rd, c, m, t.text)
          [] n.ev.type = "Eof" -> LoadOk(c, m, l)
          [] n.ev.type = "Err" -> LoadErr
          [] OTHER -> LoadLoop(doc, n.rd, c, m, l)

\* load_metadata on the file at the path; io = FALSE is a read failure
load_metadata(file, io) ==
    IF file.kind # "zip" \/ ~io THEN LoadErr
    ELSE IF CoreName \notin Names(file.entries) THEN LoadErr
    ELSE LoadLoop(file.entries[ByName(file.entries, CoreName)].data, NewReader,
                  EmptyStr, EmptyStr, EmptyStr)

(***************************************************************************)
(* generate_core_xml (main.rs:325-376).  st is "Ok", "Err" or "Panic" (an  *)
(* unwrap on an Err).                                                      *)
(***************************************************************************)
GenOk(x)  == [st |-> "Ok", xml |-> x]
GenErr    == [st |-> "Err", xml |-> << >>]
GenPanic  == [st |-> "Panic", xml |-> << >>]

\* the event loop of generate_core_xml (main.rs:344-373)
RECURSIVE CoreLoop(_, _, _, _, _)
CoreLoop(doc, r, out, new_created, new_modified) ==
    LET n == ReadEvent(doc, r)
        should_replace == n.ev.name \in {"dcterms:created", "dcterms:modified"}
        text_to_write == IF n.ev.name = "dcterms:created" THEN new_created
                         ELSE new_modified
        skip == ReadToEnd(doc, n.rd, n.ev.name, 0, EmptyStr)
    IN  CASE n.ev.type = "Start" /\ should_replace ->
                IF skip.ok
                THEN CoreLoop(doc, skip.rd,
                              out \o <<n.ev, TextEv(Escape(text_to_write))>>,
                              new_created, new_modified)
                ELSE GenPanic
          [] n.ev.type = "Start" /\ ~should_replace ->
                CoreLoop(doc, n.rd, Append(out, n.ev), new_created, new_modified)
          [] n.ev.type = "Eof" -> GenOk(Bytes(out))
          [] n.ev.type = "Err" -> GenErr
          [] OTHER -> CoreLoop(doc, n.rd, Append(out, n.ev), new_created, new_modified)

generate_core_xml(file, new_created, new_modified) ==
    IF file.kind # "zip" THEN GenErr
    ELSE IF CoreName \notin Names(file.entries) THEN GenErr
    ELSE CoreLoop(file.entries[ByName(file.entries, CoreName)].data, NewReader,
                  << >>, new_created, new_modified)

(***************************************************************************)
(* generate_app_xml (main.rs:378-444).                                     *)
(***************************************************************************)
\* the default structure written when app.xml is absent (main.rs:391-398);
\* format! inserts the value as it is
DefaultAppXml(new_last_printed) ==
    Bytes(<<DeclEv, TextEv(<<"\n">>), StartEv("Properties"), Ws,
            StartEv("Application"), TextEv(<<"Microsoft Office Word">>),
            EndEv("Application"), Ws,
            StartEv("LastPrinted"), TextEv(new_last_printed), EndEv("LastPrinted"),
            TextEv(<<"\n">>), EndEv("Properties")>>)

\* the event loop of generate_app_xml (main.rs:407-441)
RECURSIVE AppLoop(_, _, _, _, _)
AppLoop(doc, r, out, found_last_printed, new_last_printed) ==
    LET n == ReadEvent(doc, r)
        skip == ReadToEnd(doc, n.rd, n.ev.name, 0, EmptyStr)
        inserted == <<StartEv("LastPrinted"), TextEv(Escape(new_last_printed)),
                      EndEv("LastPrinted")>>
    IN  CASE n.ev.type = "Start" /\ n.ev.name = "LastPrinted" ->
                IF skip.ok
                THEN AppLoop(doc, skip.rd,
                             out \o <<n.ev, TextEv(Escape(new_last_printed))>>,
                             TRUE, new_last_printed)
                ELSE GenPanic
          [] n.ev.type = "Start" /\ n.ev.name # "LastPrinted" ->
                AppLoop(doc, n.rd, Append(out, n.ev), found_last_printed, new_last_printed)
          [] n.ev.type = "End" ->
                IF /\ n.ev.name = "Properties"
                   /\ ~found_last_printed
                   /\ new_last_printed # EmptyStr
                THEN AppLoop(doc, n.rd, out \o inserted \o <<n.ev>>,
                             found_last_printed, new_last_printed)
                ELSE AppLoop(doc, n.rd, Append(out, n.ev),
                             found_last_printed, new_last_printed)
          [] n.ev.type = "Eof" -> GenOk(Bytes(out))
          [] n.ev.type = "Err" -> GenErr
          [] OTHER -> AppLoop(doc, n.rd, Append(out, n.ev),
                              found_last_printed, new_last_printed)

generate_app_xml(file, new_last_printed) ==
    IF file.kind # "zip" THEN GenErr
    ELSE IF AppName \notin Names(file.entries) THEN GenOk(DefaultAppXml(new_last_printed))
    ELSE AppLoop(file.entries[ByName(file.entries, AppName)].data, NewReader,
                 << >>, FALSE, new_last_printed)

(***************************************************************************)
(* Source documents and containers the model starts from.                  *)
(***************************************************************************)
\* a core.xml holding created and modified
CoreGood ==
    <<DeclEv, StartEv("cp:coreProperties"), Ws,
      StartEv("dc:title"), TextEv(<<"Report">>), EndEv("dc:title"), Ws,
      StartEv("dcterms:created"), TextEv(D2Off), EndEv("dcterms:created"), Ws,
      StartEv("dcterms:modified"), TextEv(D2Off), EndEv("dcterms:modified"),
      TextEv(<<"\n">>), EndEv("cp:coreProperties")>>

\* a core.xml that also holds cp:lastPrinted
CorePrinted ==
    <<DeclEv, StartEv("cp:coreProperties"), Ws,
      StartEv("cp:lastPrinted"), TextEv(D2Off), EndEv("cp:lastPrinted"), Ws,
      StartEv("dcterms:created"), TextEv(D2Off), EndEv("dcterms:created"), Ws,
      StartEv("dcterms:modified"), TextEv(D1Z), EndEv("dcterms:modified"),
      TextEv(<<"\n">>), EndEv("cp:coreProperties")>>

\* an app.xml holding LastPrinted
AppPrinted ==
    <<DeclEv, StartEv("Properties"), Ws,
      StartEv("Application"), TextEv(<<"Microsoft Office Word">>), EndEv("Application"), Ws,
      StartEv("LastPrinted"), TextEv(D2Off), EndEv("LastPrinted"),
      TextEv(<<"\n">>), EndEv("Properties")>>

\* an app.xml without LastPrinted
AppPlain ==
    <<DeclEv, StartEv("Properties"), Ws,
      StartEv("Pages"), TextEv(<<"3">>), EndEv("Pages"),
      TextEv(<<"\n">>), EndEv("Properties")>>

\* a core.xml cut off inside dcterms:created: the end tags are missing
CoreUnterminated ==
    <<DeclEv, StartEv("cp:coreProperties"), Ws,
      StartEv("dcterms:modified"), TextEv(D2Off), EndEv("dcterms:modified"), Ws,
      StartEv("dcterms:created"), TextEv(D2Off)>>

CoreChoices == {CoreGood, CorePrinted, CoreUnterminated}
AppChoices  == {AppPrinted, AppPlain}

\* markup quick_xml cannot parse
BadEv == Ev("Bad", "", EmptyStr)

\* a core.xml without dcterms:modified
CoreNoModified ==
    <<DeclEv, StartEv("cp:coreProperties"), Ws,
      StartEv("dcterms:created"), TextEv(D2Off), EndEv("dcterms:created"),
      TextEv(<<"\n">>), EndEv("cp:coreProperties")>>

\* a core.xml whose dcterms:created is self-closing
CoreSelfClosing ==
    <<DeclEv, StartEv("cp:coreProperties"), Ws,
      EmptyEv("dcterms:created"), Ws,
      StartEv("dcterms:modified"), TextEv(D2Off), EndEv("dcterms:modified"),
      TextEv(<<"\n">>), EndEv("cp:coreProperties")>>

\* a core.xml with a syntax error after its first element
CoreBadSyntax ==
    <<DeclEv, StartEv("cp:coreProperties"), Ws,
      StartEv("dcterms:created"), TextEv(D2Off), EndEv("dcterms:created"), BadEv>>

\* an app.xml whose LastPrinted is self-closing
AppSelfClosing ==
    <<DeclEv, StartEv("Properties"), Ws,
      EmptyEv("LastPrinted"),
      TextEv(<<"\n">>), EndEv("Properties")>>

\* an app.xml without LastPrinted in which an element named Properties is
\* nested under the root
AppNested ==
    <<DeclEv, StartEv("Properties"), Ws,
      StartEv("Company"), StartEv("Properties"), TextEv(<<"Acme">>), EndEv("Properties"),
      EndEv("Company"),
      TextEv(<<"\n">>), EndEv("Properties")>>

\* an app.xml cut off inside LastPrinted
AppUnterminated ==
    <<DeclEv, StartEv("Properties"), Ws,
      StartEv("LastPrinted"), TextEv(D2Off)>>

\* the parts the rewriters are examined on
PartCoreChoices == CoreChoices \cup {CoreNoModified, CoreSelfClosing, CoreBadSyntax}
PartAppChoices  == AppChoices \cup {AppSelfClosing, AppNested, AppUnterminated}

ExtraNames == <<"word/document.xml", "[Content_Types].xml", "word/styles.xml",
                "word/settings.xml">>

\* the i-th entry besides the property parts: opaque bytes, stored or deflated
Extra(i) == Entry(ExtraNames[i], <<TextEv(<<ExtraNames[i]>>)>>,
                  IF i % 2 = 1 THEN "Stored" ELSE "Deflated")

\* a container: the first extra entry, the parts that are present (each a
\* sequence of zero or one document), then the other extra entries
Container(core, app, n) ==
    [i \in 1..(IF n >= 1 THEN 1 ELSE 0) |-> Extra(i)]
    \o [i \in 1..Len(core) |-> Entry(CoreName, core[i], "Deflated")]
    \o [i \in 1..Len(app) |-> Entry(AppName, app[i], "Deflated")]
    \o [i \in 1..(IF n >= 2 THEN n - 1 ELSE 0) |-> Extra(i + 1)]

Optional(S) == {<< >>} \cup {<<x>> : x \in S}

Containers ==
    {Container(c, a, n) : c \in Optional(CoreChoices), a \in Optional(AppChoices),
                          n \in 0..MaxExtra}

SourceFiles == {NoFile, JunkFile} \cup {ZipFile(k) : k \in Containers}

UserPaths == {[stem |-> "report", ext |-> "docx"],
              [stem |-> "notes", ext |-> "docx"],
              [stem |-> "report", ext |-> "tmp"]}

FsPaths == UserPaths \cup {with_extension(p, "tmp") : p \in UserPaths}

(***************************************************************************)
(* State.                                                                  *)
(*   fs        what each path of the file system holds                     *)
(*   app       the fields of DocxApp                                       *)
(*   inflight  the commands the UI has dispatched and not yet heard from   *)
(*   presses   how many times the user has pressed a button                *)
(*   call      the arguments of the save_metadata call being stepped       *)
(*   pc        the position of that call                                   *)
(*   archive   the entries ZipArchive::new read from the source            *)
(*   idx       the index of the copy loop                                  *)
(*   result    what the call returned: "None" while it runs, then "Ok",    *)
(*             "Err", or "Panic" for an unwrap on an Err                   *)
(*   log       the file operations the call has attempted, in order        *)
(*   orig      the file at call.path when the call started                 *)
(*   loaded    the last load_metadata(call.path): when it ran, whether its *)
(*             reads went through, and its result                          *)
(***************************************************************************)
VARIABLES fs, app, inflight, presses, shown, call, pc, archive, idx, result, log, orig, loaded

vars == <<fs, app, inflight, presses, shown, call, pc, archive, idx, result, log, orig, loaded>>

\* shown is a history variable: the path whose load filled the date fields
\* now on display (None before any load and after a failed one)
uiVars   == <<app, inflight, presses, shown>>
saveVars == <<call, pc, archive, idx, result, log, orig, loaded>>

None    == << >>
Some(x) == <<x>>

\* DocxApp::new (main.rs:58-70)
NewApp == [file_path |-> None, created_date |-> EmptyStr, modified_date |-> EmptyStr,
           last_printed_date |-> EmptyStr, status_message |-> "select a file",
           is_loading |-> FALSE]

NotLoaded == [at |-> "never", io |-> FALSE, res |-> LoadErr]

(***************************************************************************)
(* save_metadata (main.rs:258-323), one action per step.                   *)
(***************************************************************************)
temp_path == with_extension(call.path, "tmp")

\* a copy loop that skips only the old core.xml
IsCorePartOnly(n) == n = CoreName

\* main.rs:290: the entries the copy loop skips
IsPropertyPart(n) == n = CoreName \/ n = AppName

\* an entry started but never given its bytes
WrittenWithoutData(n, d) == Entry(n, << >>, "Deflated")

\* start_file and write_all: every entry is written with
\* CompressionMethod::Deflated (main.rs:284-285)
Written(n, d) == Entry(n, d, "Deflated")

Return(r) ==
    /\ pc' = "done"
    /\ result' = r

\* a validation that forgets the modified date
ValidationSkipsModified(c) ==
    /\ DateOk(c.created)
    /\ (c.last_printed # EmptyStr => DateOk(c.last_printed))

\* main.rs:264-275: the three dates are validated before anything else
ValidationOk(c) ==
    /\ DateOk(c.created)
    /\ DateOk(c.modified)
    /\ (c.last_printed # EmptyStr => DateOk(c.last_printed))

Validate ==
    /\ pc = "call"
    /\ IF ValidationOk(call)
       THEN pc' = "open" /\ UNCHANGED result
       ELSE Return("Err")
    /\ UNCHANGED <<fs, uiVars, call, archive, idx, log, orig, loaded>>

\* main.rs:280-281: File::open and ZipArchive::new on the source
OpenSource ==
    /\ pc = "open"
    /\ log' = Append(log, "open")
    /\ \E io \in BOOLEAN :
         IF io /\ fs[call.path].kind = "zip"
         THEN /\ archive' = fs[call.path].entries
              /\ pc' = "create"
              /\ UNCHANGED result
         ELSE /\ Return("Err")
              /\ UNCHANGED archive
    /\ UNCHANGED <<fs, uiVars, call, idx, orig, loaded>>

\* main.rs:282-283: File::create truncates whatever the temporary path holds
CreateTemp ==
    /\ pc = "create"
    /\ log' = Append(log, "create")
    /\ \E io \in BOOLEAN :
         IF io
         THEN /\ fs' = [fs EXCEPT ![temp_path] = Partial(<< >>)]
              /\ idx' = 1
              /\ pc' = "copy"
              /\ UNCHANGED result
         ELSE /\ Return("Err")
              /\ UNCHANGED <<fs, idx>>
    /\ UNCHANGED <<uiVars, call, archive, orig, loaded>>

\* main.rs:287-299: one iteration of the copy loop.  by_index reads the local
\* header from the source file; its Err is unwrapped.
CopyEntry ==
    /\ pc = "copy"
    /\ idx <= Len(archive)
    /\ \E io \in {"ok", "by_index", "copy"} :
         IF io = "by_index" \/ fs[call.path] # ZipFile(archive)
         THEN /\ Return("Panic")
              /\ UNCHANGED <<fs, idx, log>>
         ELSE IF IsPropertyPart(archive[idx].name)
         THEN /\ idx' = idx + 1
              /\ UNCHANGED <<fs, pc, result, log>>
         ELSE /\ log' = Append(log, "write")
              /\ IF io = "ok"
                 THEN /\ fs' = [fs EXCEPT ![temp_path].entries =
                                   Append(@, Written(archive[idx].name, archive[idx].data))]
                      /\ idx' = idx + 1
                      /\ UNCHANGED <<pc, result>>
                 ELSE /\ Return("Err")
                      /\ UNCHANGED <<fs, idx>>
    /\ UNCHANGED <<uiVars, call, archive, orig, loaded>>

CopyDone ==
    /\ pc = "copy"
    /\ idx > Len(archive)
    /\ pc' = "core"
    /\ UNCHANGED <<fs, uiVars, call, archive, idx, result, log, orig, loaded>>

\* a replacement part is generated from the file now at the path, then written
WritePart(name, gen, next) ==
    /\ \E io \in BOOLEAN :
         IF gen.st = "Panic"
         THEN /\ Return("Panic")
              /\ log' = Append(log, "open")
              /\ UNCHANGED fs
         ELSE IF gen.st = "Err" \/ ~io
         THEN /\ Return("Err")
              /\ log' = Append(log, "open")
              /\ UNCHANGED fs
         ELSE /\ fs' = [fs EXCEPT ![temp_path].entries = Append(@, Written(name, gen.xml))]
              /\ log' = log \o <<"open", "write">>
              /\ pc' = next
              /\ UNCHANGED result
    /\ UNCHANGED <<uiVars, call, archive, idx, orig, loaded>>

\* main.rs:301-308
WriteCore ==
    /\ pc = "core"
    /\ WritePart(CoreName, generate_core_xml(fs[call.path], call.created, call.modified),
                 "app")

\* main.rs:310-317
WriteApp ==
    /\ pc = "app"
    /\ WritePart(AppName, generate_app_xml(fs[call.path], call.last_printed), "finish")

\* main.rs:319: the central directory is written
Finish ==
    /\ pc = "finish"
    /\ log' = Append(log, "finish")
    /\ \E io \in BOOLEAN :
         IF io
         THEN /\ fs' = [fs EXCEPT ![temp_path].kind = "zip"]
              /\ pc' = "rename"
              /\ UNCHANGED result
         ELSE /\ Return("Err")
              /\ UNCHANGED fs
    /\ UNCHANGED <<uiVars, call, archive, idx, orig, loaded>>

\* main.rs:322: fs::rename moves the temporary file over the source
Rename ==
    /\ pc = "rename"
    /\ log' = Append(log, "rename")
    /\ \E io \in BOOLEAN :
         IF io
         THEN /\ fs' = [p \in FsPaths |->
                          IF p = call.path THEN fs[temp_path]
                          ELSE IF p = temp_path THEN NoFile
                          ELSE fs[p]]
              /\ Return("Ok")
         ELSE /\ Return("Err")
              /\ UNCHANGED fs
    /\ UNCHANGED <<uiVars, call, archive, idx, orig, loaded>>

\* load_metadata(call.path), before the save starts or after it has returned
Load ==
    /\ \/ pc = "call" /\ loaded.at = "never"
       \/ pc = "done" /\ loaded.at # "after"
    /\ \E io \in BOOLEAN :
         loaded' = [at |-> IF pc = "call" THEN "before" ELSE "after",
                    io |-> io,
                    res |-> load_metadata(fs[call.path], io)]
    /\ UNCHANGED <<fs, uiVars, call, pc, archive, idx, result, log, orig>>

SaveStep ==
    \/ Validate
    \/ OpenSource
    \/ CreateTemp
    \/ CopyEntry
    \/ CopyDone
    \/ WriteCore
    \/ WriteApp
    \/ Finish
    \/ Rename
    \/ Load

\* one call of save_metadata on any source file with any dates
InitSave ==
    /\ call \in [path : UserPaths, created : DateInputs, modified : DateInputs,
                 last_printed : DateInputs]
    /\ \E f \in SourceFiles :
         /\ fs = [p \in FsPaths |-> IF p = call.path THEN f ELSE NoFile]
         /\ orig = f
    /\ app = NewApp
    /\ inflight = << >>
    /\ presses = 0 /\ shown = None
    /\ pc = "call"
    /\ archive = << >>
    /\ idx = 0
    /\ result = "None"
    /\ log = << >>
    /\ loaded = NotLoaded

SpecSave == InitSave /\ [][SaveStep]_vars

\* one call of save_metadata with dates that pass validation, on a container
\* of one other entry and property parts of every shape
InitParts ==
    /\ call \in [path : {[stem |-> "report", ext |-> "docx"]},
                 created : {D1Z, D2Off}, modified : {D1Z, D2Off},
                 last_printed : {EmptyStr, D1Z, D2Off}]
    /\ \E c \in Optional(PartCoreChoices), a \in Optional(PartAppChoices) :
         /\ orig = ZipFile(Container(c, a, 1))
         /\ fs = [p \in FsPaths |-> IF p = call.path THEN orig ELSE NoFile]
    /\ app = NewApp
    /\ inflight = << >>
    /\ presses = 0 /\ shown = None
    /\ pc = "call"
    /\ archive = << >>
    /\ idx = 0
    /\ result = "None"
    /\ log = << >>
    /\ loaded = NotLoaded

SpecParts == InitParts /\ [][SaveStep]_vars

(***************************************************************************)
(* save_metadata run from start to end with every file operation going     *)
(* through: what it returns and the file system it leaves.                 *)
(***************************************************************************)
RECURSIVE Copied(_)
Copied(es) ==
    IF es = << >> THEN << >>
    ELSE IF IsPropertyPart(Head(es).name) THEN Copied(Tail(es))
    ELSE <<Written(Head(es).name, Head(es).data)>> \o Copied(Tail(es))

SaveRun(f, c) ==
    LET src  == f[c.path]
        tmp  == with_extension(c.path, "tmp")
        kept == Copied(src.entries)
        core == generate_core_xml(src, c.created, c.modified)
        appx == generate_app_xml(src, c.last_printed)
        withCore == Append(kept, Written(CoreName, core.xml))
    IN  IF ~ValidationOk(c) \/ src.kind # "zip" THEN [st |-> "Err", fs |-> f]
        ELSE IF tmp = c.path
        THEN [st |-> IF src.entries # << >> THEN "Panic" ELSE "Err",
              fs |-> [f EXCEPT ![tmp] = Partial(<< >>)]]
        ELSE IF core.st # "Ok"
        THEN [st |-> core.st, fs |-> [f EXCEPT ![tmp] = Partial(kept)]]
        ELSE IF appx.st # "Ok"
        THEN [st |-> appx.st, fs |-> [f EXCEPT ![tmp] = Partial(withCore)]]
        ELSE [st |-> "Ok",
              fs |-> [f EXCEPT ![tmp] = NoFile,
                               ![c.path] = ZipFile(Append(withCore,
                                                          Written(AppName, appx.xml)))]]

(***************************************************************************)
(* DocxApp::update (main.rs:76-150) and the commands it dispatches.  A     *)
(* command runs on the executor; its message reaches update when it ends.  *)
(***************************************************************************)
Task(k, p, c, m, l) ==
    [kind |-> k, path |-> p, created |-> c, modified |-> m, last_printed |-> l]
SelectTask  == Task("select", None, EmptyStr, EmptyStr, EmptyStr)
LoadTask(p) == Task("load", Some(p), EmptyStr, EmptyStr, EmptyStr)

Remove(q, i) == SubSeq(q, 1, i - 1) \o SubSeq(q, i + 1, Len(q))

\* what the user may type into a date field
EditInputs == {D1Z}

\* Message::SelectFile (main.rs:78-82); the button is always enabled
SelectFile ==
    /\ Len(inflight) < MaxInFlight
    /\ presses < MaxPresses
    /\ presses' = presses + 1
    /\ app' = [app EXCEPT !.is_loading = TRUE, !.status_message = "opening dialog"]
    /\ inflight' = Append(inflight, SelectTask)
    /\ UNCHANGED <<fs, shown, saveVars>>

\* Message::FileSelected (main.rs:83-93): the dialog returns an existing file
\* or nothing
FileSelected ==
    \E i \in 1..Len(inflight) :
        /\ inflight[i].kind = "select"
        /\ \E r \in Optional({p \in UserPaths : fs[p].kind # "none"}) :
             IF r # None
             THEN /\ app' = [app EXCEPT !.is_loading = TRUE,
                                        !.status_message = "loading",
                                        !.file_path = r]
                  /\ inflight' = Append(Remove(inflight, i), LoadTask(r[1]))
             ELSE /\ app' = [app EXCEPT !.is_loading = FALSE,
                                        !.status_message = "cancelled"]
                  /\ inflight' = Remove(inflight, i)
        /\ UNCHANGED <<fs, presses, shown, saveVars>>

\* Message::FileLoaded (main.rs:94-110)
FileLoaded ==
    \E i \in 1..Len(inflight) :
        /\ inflight[i].kind = "load"
        /\ \E io \in BOOLEAN :
             LET r == load_metadata(fs[inflight[i].path[1]], io)
             IN  IF r.st = "Ok"
                 THEN /\ app' = [app EXCEPT !.is_loading = FALSE,
                                            !.created_date = r.created,
                                            !.modified_date = r.modified,
                                            !.last_printed_date = r.last_printed,
                                            !.status_message = "loaded"]
                      /\ shown' = inflight[i].path
                 ELSE /\ app' = [app EXCEPT !.is_loading = FALSE,
                                            !.file_path = None,
                                            !.created_date = EmptyStr,
                                            !.modified_date = EmptyStr,
                                            !.last_printed_date = EmptyStr,
                                            !.status_message = "load error"]
                      /\ shown' = None
        /\ inflight' = Remove(inflight, i)
        /\ UNCHANGED <<fs, presses, saveVars>>

\* Message::CreatedDateChanged (main.rs:111-114)
CreatedDateChanged ==
    /\ \E date \in EditInputs : app' = [app EXCEPT !.created_date = date]
    /\ UNCHANGED <<fs, inflight, presses, shown, saveVars>>

\* Message::ModifiedDateChanged (main.rs:115-118)
ModifiedDateChanged ==
    /\ \E date \in EditInputs : app' = [app EXCEPT !.modified_date = date]
    /\ UNCHANGED <<fs, inflight, presses, shown, saveVars>>

\* Message::LastPrintedDateChanged (main.rs:119-122)
LastPrintedDateChanged ==
    /\ \E date \in EditInputs : app' = [app EXCEPT !.last_printed_date = date]
    /\ UNCHANGED <<fs, inflight, presses, shown, saveVars>>

\* view (main.rs:160-163): the save button sends SaveChanges only while a
\* file is selected
SaveButtonEnabled == app.file_path # None

\* Message::SaveChanges (main.rs:123-138)
SaveChanges ==
    /\ SaveButtonEnabled
    /\ Len(inflight) < MaxInFlight
    /\ presses < MaxPresses
    /\ presses' = presses + 1
    /\ IF app.file_path # None
       THEN /\ app' = [app EXCEPT !.is_loading = TRUE, !.status_message = "saving"]
            /\ inflight' = Append(inflight,
                                  Task("save", app.file_path, app.created_date,
                                       app.modified_date, app.last_printed_date))
       ELSE /\ app' = [app EXCEPT !.status_message = "no file selected"]
            /\ UNCHANGED inflight
    /\ UNCHANGED <<fs, shown, saveVars>>

SaveArgs(t) == [path |-> t.path[1], created |-> t.created, modified |-> t.modified,
                last_printed |-> t.last_printed]

\* Message::FileSaved (main.rs:139-148): a save_metadata command ends and its
\* result is delivered; io = FALSE is a file operation failing at the start
FileSaved ==
    \E i \in 1..Len(inflight) :
        /\ inflight[i].kind = "save"
        /\ \E io \in BOOLEAN :
             LET run == IF io THEN SaveRun(fs, SaveArgs(inflight[i]))
                        ELSE [st |-> "Err", fs |-> fs]
             IN  /\ run.st # "Panic"
                 /\ fs' = run.fs
                 /\ app' = [app EXCEPT !.is_loading = FALSE,
                                       !.status_message =
                                           IF run.st = "Ok" THEN "saved" ELSE "save error"]
        /\ inflight' = Remove(inflight, i)
        /\ UNCHANGED <<presses, shown, saveVars>>

\* a save_metadata command that panics ends without a message
SavePanicked ==
    \E i \in 1..Len(inflight) :
        /\ inflight[i].kind = "save"
        /\ LET run == SaveRun(fs, SaveArgs(inflight[i]))
           IN  /\ run.st = "Panic"
               /\ fs' = run.fs
        /\ inflight' = Remove(inflight, i)
        /\ UNCHANGED <<app, presses, shown, saveVars>>

Update ==
    \/ SelectFile
    \/ FileSelected
    \/ FileLoaded
    \/ CreatedDateChanged
    \/ ModifiedDateChanged
    \/ LastPrintedDateChanged
    \/ SaveChanges
    \/ FileSaved
    \/ SavePanicked

\* the application after DocxApp::new, with two documents on disk
InitUI ==
    /\ \E f \in {ZipFile(Container(<<CorePrinted>>, << >>, 1)),
                 ZipFile(Container(<< >>, <<AppPlain>>, 1)),
                 ZipFile(Container(<<CoreUnterminated>>, << >>, 1))} :
         fs = [p \in FsPaths |->
                 IF p = [stem |-> "report", ext |-> "docx"]
                 THEN ZipFile(Container(<<CoreGood>>, <<AppPrinted>>, 1))
                 ELSE IF p = [stem |-> "notes", ext |-> "docx"] THEN f
                 ELSE NoFile]
    /\ app = NewApp
    /\ inflight = << >>
    /\ presses = 0 /\ shown = None
    /\ call = [path |-> [stem |-> "report", ext |-> "docx"], created |-> EmptyStr,
               modified |-> EmptyStr, last_printed |-> EmptyStr]
    /\ pc = "idle"
    /\ archive = << >>
    /\ idx = 0
    /\ result = "None"
    /\ log = << >>
    /\ orig = NoFile
    /\ loaded = NotLoaded

SpecUI == InitUI /\ [][Update]_vars

(***************************************************************************)
(* Vocabulary of the properties.                                           *)
(***************************************************************************)
\* the file system the call started from
InitialFs == [p \in FsPaths |-> IF p = call.path THEN orig ELSE NoFile]

\* how many entries of es carry the name n
Count(es, n) == Cardinality({i \in 1..Len(es) : es[i].name = n})

\* the names of the source besides the two property parts
KeptNames(es) == {n \in Names(es) : n # CoreName /\ n # AppName}

\* a finished archive that holds each kept name of the source once, both
\* property parts once, and nothing else
CompleteNew(f, src) ==
    /\ f.kind = "zip"
    /\ \A n \in KeptNames(src.entries) \cup {CoreName, AppName} : Count(f.entries, n) = 1
    /\ Len(f.entries) = Cardinality(KeptNames(src.entries)) + 2

\* the texts of the elements called name in a part: what stands between a
\* start tag and its end tag
ElementTexts(doc, name) ==
    {doc[i + 1].text : i \in {j \in 1..(Len(doc) - 2) :
                                /\ doc[j] = StartEv(name)
                                /\ doc[j + 1].type = "Text"
                                /\ doc[j + 2] = EndEv(name)}}
    \cup {EmptyStr : i \in {j \in 1..(Len(doc) - 1) :
                                doc[j] = StartEv(name) /\ doc[j + 1] = EndEv(name)}}

\* the part has a tag of that name, in any form
HasElement(doc, name) ==
    \E i \in 1..Len(doc) : doc[i].name = name /\ doc[i].type \in {"Start", "Empty", "End"}

PartOf(f, n) == f.entries[ByName(f.entries, n)].data

\* a date as the claims understand it: an RFC 3339 date-time
ValidDate(s) == ParseRfc3339(s)

(***************************************************************************)
(* Claims about one save_metadata call, checked under SpecSave.            *)
(***************************************************************************)

\* C1 (as claimed): all-or-nothing replacement.  At every point of a save the
\* original path holds either the complete original container or the complete
\* new one, and when the save has returned an error it holds the original.
C1_AllOrNothing ==
    /\ fs[call.path] = orig \/ (result = "Ok" /\ CompleteNew(fs[call.path], orig))
    /\ result = "Err" => fs[call.path] = orig

\* C1, where it holds: a source path whose extension is not "tmp" holds the
\* original or the complete new container at every point of the save
C1_DistinctTemp ==
    call.path # temp_path => C1_AllOrNothing

\* C2: byte preservation.  After a successful save every entry of the source
\* other than the two property parts is in the output under the same name
\* with the same bytes.
C2_BytePreservation ==
    result = "Ok" =>
        \A i \in 1..Len(orig.entries) :
            orig.entries[i].name \notin {CoreName, AppName} =>
                \E j \in 1..Len(fs[call.path].entries) :
                    /\ fs[call.path].entries[j].name = orig.entries[i].name
                    /\ fs[call.path].entries[j].data = orig.entries[i].data

C2_Witness ==
    /\ result = "Ok"
    /\ Cardinality(KeptNames(orig.entries)) >= 2

\* C3 (as claimed): round trip.  A successful save of (created, modified,
\* last_printed) followed by a load whose reads go through returns exactly
\* these three values.
C3_RoundTrip ==
    (result = "Ok" /\ loaded.at = "after" /\ loaded.io) =>
        loaded.res = LoadOk(call.created, call.modified, call.last_printed)

\* C4: fail-fast validation.  With created or modified not a valid date, or
\* last_printed non-empty and not a valid date, the save returns an error
\* having attempted no file operation and changed no file; and an empty
\* last_printed with valid created and modified passes validation.
C4_FailFast ==
    /\ (\/ ~ValidDate(call.created)
        \/ ~ValidDate(call.modified)
        \/ (call.last_printed # EmptyStr /\ ~ValidDate(call.last_printed)))
       => /\ log = << >>
          /\ fs = InitialFs
          /\ pc \in {"call", "done"}
          /\ pc = "done" => result = "Err"
    /\ (ValidDate(call.created) /\ ValidDate(call.modified) /\ call.last_printed = EmptyStr)
       => (pc # "call" => (pc # "done" \/ log # << >>))

C4_Witness ==
    /\ pc = "done"
    /\ result = "Err"
    /\ ValidDate(call.created)
    /\ ~ValidDate(call.modified)
    /\ orig.kind = "zip"

\* C5: referential integrity.  After a successful save every entry name of
\* the source other than the two property parts appears exactly once in the
\* output, docProps/core.xml and docProps/app.xml appear exactly once each,
\* and the output holds nothing else.
C5_ReferentialIntegrity ==
    result = "Ok" => CompleteNew(fs[call.path], orig)

C5_Witness ==
    /\ result = "Ok"
    /\ AppName \in Names(orig.entries)
    /\ KeptNames(orig.entries) # {}

\* C6 (as claimed): missing mandatory part.  On a container without
\* docProps/core.xml a load returns an error, and a save with valid dates
\* returns an error and no file ever exists at the temporary path.
C6_MissingCore ==
    (orig.kind = "zip" /\ CoreName \notin Names(orig.entries) /\ call.path # temp_path) =>
        /\ loaded.at # "never" => loaded.res.st = "Err"
        /\ pc = "done" => result = "Err"
        /\ fs[temp_path] = NoFile

\* C7 (as claimed): optional part synthesis.  On a container without
\* docProps/app.xml a successful save with a non-empty last_printed v writes
\* an app.xml whose LastPrinted element has text v, and a load of the result
\* whose reads go through returns v as last_printed.
C7_Synthesis ==
    (/\ orig.kind = "zip"
     /\ AppName \notin Names(orig.entries)
     /\ call.last_printed # EmptyStr
     /\ result = "Ok") =>
        /\ AppName \in Names(fs[call.path].entries)
        /\ ElementTexts(PartOf(fs[call.path], AppName), "LastPrinted") = {call.last_printed}
        /\ (loaded.at = "after" /\ loaded.io) =>
              (loaded.res.st = "Ok" /\ loaded.res.last_printed = call.last_printed)

\* C8 (as claimed): empty optional field.  A successful save with an empty
\* last_printed on a container without docProps/app.xml writes no app.xml, or
\* one without a LastPrinted element.
C8_NoEmptyLastPrinted ==
    (/\ orig.kind = "zip"
     /\ AppName \notin Names(orig.entries)
     /\ call.last_printed = EmptyStr
     /\ result = "Ok") =>
        \/ AppName \notin Names(fs[call.path].entries)
        \/ ~HasElement(PartOf(fs[call.path], AppName), "LastPrinted")

\* C9 (as claimed): commit ordering.  The rename comes last and after the
\* archive is finalized with every entry in it, it is the only step that
\* changes what the original path holds, and after a successful rename no
\* file remains at the temporary path.
C9_CommitOrdering ==
    /\ \A i \in 1..Len(log) : log[i] = "rename" =>
          /\ i = Len(log)
          /\ \E j \in 1..(i - 1) : log[j] = "finish"
    /\ pc = "rename" => CompleteNew(fs[temp_path], orig)
    /\ fs[call.path] # orig => (Len(log) > 0 /\ log[Len(log)] = "rename")
    /\ result = "Ok" => (fs[temp_path] = NoFile /\ log[Len(log)] = "rename")

(***************************************************************************)
(* Claims about the application, checked under SpecUI.                     *)
(***************************************************************************)
SamePath(t, u) == t.path # None /\ t.path = u.path

\* C10 (as claimed): serialization per file.  No two save_metadata commands
\* are in flight at once for one path, and no save_metadata is in flight
\* together with a load_metadata of the same path.
C10_Serialized ==
    \A i, j \in 1..Len(inflight) :
        (i # j /\ inflight[i].kind = "save" /\ inflight[j].kind \in {"save", "load"})
            => ~SamePath(inflight[i], inflight[j])

(***************************************************************************)
(* SaveRun is the stepped save_metadata with no failing file operation:    *)
(* a stepped call that returns Ok leaves the file system SaveRun gives, and *)
(* returns Ok only where SaveRun does.  Checked under SpecSave.            *)
(***************************************************************************)
SaveRunAgrees ==
    /\ result = "Ok" => SaveRun(InitialFs, call) = [st |-> "Ok", fs |-> fs]
    /\ (pc = "done" /\ SaveRun(InitialFs, call).st = "Panic") => result # "Ok"

(***************************************************************************)
(* Claims about the property parts, checked under SpecParts.               *)
(***************************************************************************)
\* the part the call started from, and the one it left at the path
OrigPart(n) == PartOf(orig, n)
NewPart(n)  == PartOf(fs[call.path], n)

\* no element of that name with text in it
LacksText(doc, name) == ElementTexts(doc, name) \subseteq {EmptyStr}

\* C11 (as claimed): mandatory fields on load.  A load of a container whose
\* core.xml lacks the text of dcterms:created or of dcterms:modified returns
\* an error, and no load returns Ok with an empty created or modified.
C11_MandatoryOnLoad ==
    /\ (/\ loaded.at = "before"
        /\ CoreName \in Names(orig.entries)
        /\ \/ LacksText(OrigPart(CoreName), "dcterms:created")
           \/ LacksText(OrigPart(CoreName), "dcterms:modified"))
       => loaded.res.st = "Err"
    /\ (loaded.at # "never" /\ loaded.res.st = "Ok")
       => (loaded.res.created # EmptyStr /\ loaded.res.modified # EmptyStr)

\* a part is well formed when it has no syntax error and every start tag is
\* closed by the end tag of its name, in order
RECURSIVE Balanced(_, _)
Balanced(doc, open) ==
    IF doc = << >> THEN open = << >>
    ELSE LET e == Head(doc)
         IN  CASE e.type = "Bad" -> FALSE
               [] e.type = "Start" -> Balanced(Tail(doc), Append(open, e.name))
               [] e.type = "End" ->
                    /\ open # << >>
                    /\ open[Len(open)] = e.name
                    /\ Balanced(Tail(doc), SubSeq(open, 1, Len(open) - 1))
               [] OTHER -> Balanced(Tail(doc), open)

WellFormed(doc) == Balanced(doc, << >>)

MalformedPart(n) == n \in Names(orig.entries) /\ ~WellFormed(OrigPart(n))

\* the call got past the copy loop, so it has reached the property parts
ReachedParts == archive # << >> /\ idx > Len(archive)

\* C12 (as claimed): malformed XML is a returned error.  With a malformed
\* core.xml or app.xml a save that reaches the parts returns an error, never
\* panics, and a load of a malformed core.xml returns an error.
C12_MalformedIsError ==
    /\ (/\ MalformedPart(CoreName) \/ MalformedPart(AppName)
        /\ ReachedParts
        /\ pc = "done")
       => result = "Err"
    /\ (MalformedPart(CoreName) /\ loaded.at = "before") => loaded.res.st = "Err"

\* C12, the save alone: with a malformed part the save does not panic
C12_SaveDoesNotPanic ==
    ((MalformedPart(CoreName) \/ MalformedPart(AppName)) /\ ReachedParts)
        => result # "Panic"

\* the part has the element in self-closing form
SelfClosing(doc, name) == \E i \in 1..Len(doc) : doc[i] = EmptyEv(name)

\* the opening tags of the elements called name, self-closing ones included
Tags(doc, name) ==
    {i \in 1..Len(doc) : doc[i].name = name /\ doc[i].type \in {"Start", "Empty"}}

\* the part holds the element once, as a start/end pair around v
HoldsOnce(doc, name, v) ==
    /\ Cardinality(Tags(doc, name)) = 1
    /\ ElementTexts(doc, name) = {v}

SelfClosingIn(n, name) == n \in Names(orig.entries) /\ SelfClosing(OrigPart(n), name)

\* C13 (as claimed): after a successful save, a target element that was
\* self-closing in the source part stands in the new part once, as a start/end
\* pair around the new value.
C13_SelfClosingTarget ==
    result = "Ok" =>
        /\ SelfClosingIn(CoreName, "dcterms:created")
             => HoldsOnce(NewPart(CoreName), "dcterms:created", call.created)
        /\ SelfClosingIn(CoreName, "dcterms:modified")
             => HoldsOnce(NewPart(CoreName), "dcterms:modified", call.modified)
        /\ (SelfClosingIn(AppName, "LastPrinted") /\ call.last_printed # EmptyStr)
             => HoldsOnce(NewPart(AppName), "LastPrinted", call.last_printed)

\* the element called name is the last child of the root: its end tag stands
\* immediately before the closing tag that ends the part
LastChildOfRoot(doc, name) ==
    /\ Len(doc) >= 2
    /\ doc[Len(doc)] = EndEv("Properties")
    /\ doc[Len(doc) - 1] = EndEv(name)

AppKept == AppName \in Names(orig.entries)

\* C14 (as claimed): after a successful save of a container that has app.xml,
\* (a) if app.xml had no LastPrinted and the value is not empty, the new part
\* holds one LastPrinted with that value as the last child of the root; (b) if
\* it had none and the value is empty, the new part has none; (c) if it had
\* one, none is added.
C14_LastPrintedInsertion ==
    (result = "Ok" /\ AppKept) =>
        /\ (~HasElement(OrigPart(AppName), "LastPrinted") /\ call.last_printed # EmptyStr)
             => /\ HoldsOnce(NewPart(AppName), "LastPrinted", call.last_printed)
                /\ LastChildOfRoot(NewPart(AppName), "LastPrinted")
        /\ (~HasElement(OrigPart(AppName), "LastPrinted") /\ call.last_printed = EmptyStr)
             => ~HasElement(NewPart(AppName), "LastPrinted")
        /\ HasElement(OrigPart(AppName), "LastPrinted")
             => Cardinality(Tags(NewPart(AppName), "LastPrinted"))
                  = Cardinality(Tags(OrigPart(AppName), "LastPrinted"))

\* C14, clause (a) alone
C14_InsertedOnceAtRoot ==
    (/\ result = "Ok" /\ AppKept
     /\ ~HasElement(OrigPart(AppName), "LastPrinted")
     /\ call.last_printed # EmptyStr)
        => /\ HoldsOnce(NewPart(AppName), "LastPrinted", call.last_printed)
           /\ LastChildOfRoot(NewPart(AppName), "LastPrinted")

\* C15 (as claimed): after a successful save every entry copied from the
\* source has in the new archive the compression method it had in the source.
C15_MethodPreserved ==
    (result = "Ok" /\ call.path # temp_path) =>
        \A n \in KeptNames(orig.entries) :
            /\ n \in Names(fs[call.path].entries)
            /\ fs[call.path].entries[ByName(fs[call.path].entries, n)].method
                 = orig.entries[ByName(orig.entries, n)].method

\* C17 (as claimed): a save that returns an error leaves no file at the
\* temporary path.
C17_TempCleanup ==
    (result = "Err" /\ call.path # temp_path) => fs[temp_path] = NoFile

\* the part with the text enclosed by dcterms:created replaced by c and the
\* text enclosed by dcterms:modified replaced by m, and every other event as it
\* was
TextsReplaced(doc, c, m) ==
    [i \in 1..Len(doc) |->
        IF i > 1 /\ doc[i].type = "Text" /\ doc[i - 1] = StartEv("dcterms:created")
        THEN TextEv(c)
        ELSE IF i > 1 /\ doc[i].type = "Text" /\ doc[i - 1] = StartEv("dcterms:modified")
        THEN TextEv(m)
        ELSE doc[i]]

CoreRewritten ==
    /\ result = "Ok"
    /\ CoreName \in Names(orig.entries)
    /\ WellFormed(OrigPart(CoreName))

\* C16 (as claimed): after a successful save of a well-formed core.xml the new
\* part is the old one with only the two enclosed texts replaced, the new
\* values are what the part holds, and rewriting the new part with the same
\* values gives the new part again.
C16_VerbatimIdempotent ==
    CoreRewritten =>
        /\ NewPart(CoreName) = TextsReplaced(OrigPart(CoreName), call.created, call.modified)
        /\ HasElement(OrigPart(CoreName), "dcterms:created")
             => ElementTexts(NewPart(CoreName), "dcterms:created") = {call.created}
        /\ generate_core_xml(fs[call.path], call.created, call.modified)
             = GenOk(NewPart(CoreName))

\* C16, the second rewrite alone: it ends normally
C16_SecondRewriteReturns ==
    CoreRewritten =>
        generate_core_xml(fs[call.path], call.created, call.modified).st = "Ok"

\* the part with every text enclosed by LastPrinted taken out
LastPrintedEmptied(doc) ==
    LET keep == {i \in 1..Len(doc) :
                    ~(i > 1 /\ doc[i].type = "Text" /\ doc[i - 1] = StartEv("LastPrinted"))}
        RECURSIVE Pick(_)
        Pick(i) == IF i > Len(doc) THEN << >>
                   ELSE IF i \in keep THEN <<doc[i]>> \o Pick(i + 1)
                   ELSE Pick(i + 1)
    IN  Pick(1)

\* app.xml holds a LastPrinted with text and the call asks for an empty one
ClearsLastPrinted ==
    /\ AppKept
    /\ WellFormed(OrigPart(AppName))
    /\ \E t \in ElementTexts(OrigPart(AppName), "LastPrinted") : t # EmptyStr
    /\ call.last_printed = EmptyStr

\* C18 (as claimed): after a successful save that clears an existing
\* LastPrinted, the new app.xml holds the LastPrinted element with empty text
\* and is otherwise the old part.
C18_ClearLastPrinted ==
    (result = "Ok" /\ ClearsLastPrinted) =>
        /\ ElementTexts(NewPart(AppName), "LastPrinted") = {EmptyStr}
        /\ NewPart(AppName) = LastPrintedEmptied(OrigPart(AppName))

\* Claims about the selected file, checked under SpecUI

\* the step sends a save_metadata command
DispatchesSave ==
    /\ Len(inflight') = Len(inflight) + 1
    /\ inflight'[Len(inflight')].kind = "save"

\* C19 (as claimed): every save_metadata command is dispatched for the path
\* whose completed successful load filled the fields it carries; none is
\* dispatched while the load of the selected file is outstanding or while the
\* fields come from another file.
C19_SaveBelongsToFile ==
    [][DispatchesSave =>
         /\ inflight'[Len(inflight')].path = shown
         /\ \A i \in 1..Len(inflight) : inflight[i] # LoadTask(app.file_path[1])]_vars

\* C19, out of order alone: with no load outstanding, the fields on display
\* come from the selected file
C19_ShownIsSelected ==
    (/\ app.file_path # None
     /\ \A i \in 1..Len(inflight) : inflight[i].kind # "load")
        => shown = app.file_path

====
